---- MODULE Spec2Model ----
(***************************************************************************)
(* quad-pi: two's-complement codec, I2C register device, ADXL345           *)
(* accelerometer and L3G4200D gyroscope drivers (src/quad_pi/i2c.py) and   *)
(* the complementary-filter attitude estimator (src/quad_pi/control.py).   *)
(*                                                                         *)
(* Numbers.  Python ints are unbounded integers.  Python floats are        *)
(* modelled as exact rationals <<n, d>> (d > 0, lowest terms); the scale   *)
(* factors 3.9/15.6, 7.8/15.6, 15.6/15.6 and 31.2/15.6 are exactly 1/4,    *)
(* 1/2, 1 and 2 in IEEE doubles as well.  The code is Python 2 (the tests  *)
(* import mock and expect round(-0.5) = -1): round() is half away from 0.  *)
(* An optional value is <<>> (None) or <<v>>.                              *)
(***************************************************************************)
EXTENDS Integers, Sequences, FiniteSets, TLC

VARIABLES
  decimal,         \* codec: the number handed to TwosComplement.from_decimal
  twos,            \* codec: the TwosComplement instance built from it
  regs,            \* the devices' registers behind the SMBus, by <<device, register>>
  log,             \* the bus transactions issued by the last call, in order
  call,            \* the last call: [op, args]
  ret,             \* what the last call returned
  err,             \* the exception the last call raised ("None" when it returned)
  k,               \* AHRS._k
  gyro,            \* the kind of gyro object the AHRS was constructed with
  last_read_time,  \* AHRS._last_read_time
  int_pitch,       \* AHRS._int_pitch
  int_roll,        \* AHRS._int_roll
  now,             \* the wall clock read by datetime.now(), in 1/100 s
  a_att,           \* calculate's locals a_pitch, a_roll, when it last returned
  gyro_rates,      \* _get_gyro_angles' locals dx, dy, dz, when calculate last returned
  g_d              \* calculate's locals g_dx, g_dy, g_dz, when it last returned

vars == <<decimal, twos, regs, log, call, ret, err, k, gyro, last_read_time,
          int_pitch, int_roll, now, a_att, gyro_rates, g_d>>

codecVars == <<decimal, twos>>
busVars == <<regs, log>>
ahrsVars ==
  <<k, gyro, last_read_time, int_pitch, int_roll, now, a_att, gyro_rates, g_d>>

None == <<>>
Some(v) == <<v>>

-----------------------------------------------------------------------------
(* Exact arithmetic standing for Python's float arithmetic.                *)

Abs(x) == IF x < 0 THEN -x ELSE x

RECURSIVE Gcd(_, _)
Gcd(a, b) == IF b = 0 THEN a ELSE Gcd(b, a % b)

Rat(n, d) ==
  LET g == Gcd(Abs(n), Abs(d))
      s == IF d < 0 THEN -1 ELSE 1
  IN  <<(s * n) \div g, (s * d) \div g>>

Lcm(a, b) == (a \div Gcd(a, b)) * b

RAdd(x, y) ==
  LET l == Lcm(x[2], y[2])
  IN  Rat(x[1] * (l \div x[2]) + y[1] * (l \div y[2]), l)

RNeg(x) == <<-x[1], x[2]>>

RSub(x, y) == RAdd(x, RNeg(y))

RMul(x, y) ==
  LET a == Rat(x[1], y[2])
      b == Rat(y[1], x[2])
  IN  <<a[1] * b[1], a[2] * b[2]>>

RAbs(x) == <<Abs(x[1]), x[2]>>

RLeq(x, y) == x[1] * y[2] <= y[1] * x[2]

Int2Rat(n) == <<n, 1>>

\* Python 3's round(): to the nearest integer, a tie going to the even one.
round_half_even(x) ==
  LET fl == x[1] \div x[2]
      rem2 == 2 * (x[1] - fl * x[2])
  IN  IF rem2 < x[2] THEN fl
      ELSE IF rem2 > x[2] THEN fl + 1
      ELSE IF fl % 2 = 0 THEN fl ELSE fl + 1

\* Python 2 round(): to the nearest integer, a tie going away from zero;
\* int() of the result is that integer.
round(x) ==
  IF x[1] >= 0
  THEN (2 * x[1] + x[2]) \div (2 * x[2])
  ELSE -((2 * (-x[1]) + x[2]) \div (2 * x[2]))

\* Python's ~ on an int.
BitNot(x) == -x - 1

-----------------------------------------------------------------------------
(* class TwosComplement                                                    *)

ValueError == [exc |-> "ValueError"]

\* TwosComplement.__init__(lsb, msb=None)
TwosComplement(lsb, msb) ==
  IF msb = None
  THEN [bin_val |-> lsb, bits |-> 8]
  ELSE [bin_val |-> (msb[1] * 256) + lsb, bits |-> 16]

\* TwosComplement.as_bin / __int__
as_bin(t) == t.bin_val

\* TwosComplement.as_dec
as_dec(t) ==
  LET sign_bit == t.bin_val \div (2 ^ (t.bits - 1))
  IN  IF sign_bit # 0
      THEN LET data_bits == t.bin_val - 2 ^ t.bits
           IN  -(BitNot(data_bits) + 1)
      ELSE t.bin_val

\* TwosComplement._split_lsb_msb
split_lsb_msb(binary) ==
  LET msb == binary \div 256
      lsb == binary - (msb * 256)
  IN  <<lsb, msb>>

\* _negative_to_binary flipping the bits without adding the one back.
negative_to_binary_no_carry(d, bits) == BitNot(Abs(d)) + 2 ^ bits

\* TwosComplement._negative_to_binary
negative_to_binary(d, bits) == BitNot(Abs(d)) + (2 ^ bits + 1)

\* from_decimal with the 8-bit test on negatives excluding -128.
from_decimal_strict_low(x) ==
  LET d == round(x)
  IN  IF d >= 0
      THEN IF d < 128
           THEN TwosComplement(d, None)
           ELSE IF d < 32768
                THEN LET s == split_lsb_msb(d)
                     IN  TwosComplement(s[1], Some(s[2]))
                ELSE ValueError
      ELSE IF d > -128
           THEN TwosComplement(negative_to_binary(d, 8), None)
           ELSE IF d >= -32768
                THEN LET s == split_lsb_msb(negative_to_binary(d, 16))
                     IN  TwosComplement(s[1], Some(s[2]))
                ELSE ValueError

\* TwosComplement.from_decimal: the instance, or ValueError.
from_decimal(x) ==
  LET d == round(x)
  IN  IF d >= 0
      THEN IF d < 128
           THEN TwosComplement(d, None)
           ELSE IF d < 32768
                THEN LET s == split_lsb_msb(d)
                     IN  TwosComplement(s[1], Some(s[2]))
                ELSE ValueError
      ELSE IF d >= -128
           THEN TwosComplement(negative_to_binary(d, 8), None)
           ELSE IF d >= -32768
                THEN LET s == split_lsb_msb(negative_to_binary(d, 16))
                     IN  TwosComplement(s[1], Some(s[2]))
                ELSE ValueError

Raised(r) == "exc" \in DOMAIN r

-----------------------------------------------------------------------------
(* class I2CDevice over an smbus.SMBus.  A call runs on an execution       *)
(* record e: the registers, the transactions issued so far, the exception  *)
(* raised so far ("None": none; once one is raised the rest of the call is *)
(* skipped), the value of the last expression, and failAt, the index of    *)
(* the transaction on which the transport fails (0: it does not).          *)

Txn(kind, dev, reg, val, ok) ==
  [kind |-> kind, dev |-> dev, reg |-> reg, val |-> val, ok |-> ok]

\* F applied to the value of v, which is computed once.
Once(v, F(_)) == CHOOSE y \in {F(x) : x \in {v}} : TRUE

Begin(failAt) ==
  [regs |-> regs, log |-> <<>>, err |-> "None", val |-> 0, failAt |-> failAt]

Raise(e0, exc) ==
  Once(e0, LAMBDA e : IF e.err # "None" THEN e ELSE [e EXCEPT !.err = exc])

Return(e0, v) ==
  Once(e0, LAMBDA e : IF e.err # "None" THEN e ELSE [e EXCEPT !.val = v])

\* __getitem__ reading the register again when the transport fails.
I2C_getitem_retry(e0, dev, reg) ==
  Once(e0, LAMBDA e :
    IF e.err # "None" THEN e
    ELSE IF Len(e.log) + 1 = e.failAt
    THEN [e EXCEPT !.log = Append(Append(@, Txn("read", dev, reg, 0, FALSE)),
                                  Txn("read", dev, reg, e.regs[<<dev, reg>>], TRUE)),
                   !.val = e.regs[<<dev, reg>>]]
    ELSE [e EXCEPT !.log = Append(@, Txn("read", dev, reg, e.regs[<<dev, reg>>], TRUE)),
                   !.val = e.regs[<<dev, reg>>]])

\* I2CDevice.__getitem__: bus.read_byte_data(address, register)
I2C_getitem(e0, dev, reg) ==
  Once(e0, LAMBDA e :
    IF e.err # "None" THEN e
    ELSE IF Len(e.log) + 1 = e.failAt
    THEN [e EXCEPT !.log = Append(@, Txn("read", dev, reg, 0, FALSE)),
                   !.err = "IOError"]
    ELSE [e EXCEPT !.log = Append(@, Txn("read", dev, reg, e.regs[<<dev, reg>>], TRUE)),
                   !.val = e.regs[<<dev, reg>>]])

\* A Python int handed over as an object.
PyInt(n) == [int |-> n]

\* int(byte_data): a TwosComplement through __int__, an int as it is.
int(byte_data) ==
  IF "bin_val" \in DOMAIN byte_data THEN as_bin(byte_data) ELSE byte_data.int

\* I2CDevice.__setitem__: bus.write_byte_data(address, register, int(byte_data)).
\* The transport sends one byte: the register keeps the low 8 bits.
I2C_setitem(e0, dev, reg, byte_data) ==
  Once(e0, LAMBDA e :
    IF e.err # "None" THEN e
    ELSE IF Len(e.log) + 1 = e.failAt
    THEN [e EXCEPT !.log = Append(@, Txn("write", dev, reg, int(byte_data), FALSE)),
                   !.err = "IOError"]
    ELSE [e EXCEPT !.log = Append(@, Txn("write", dev, reg, int(byte_data), TRUE)),
                   !.regs = [@ EXCEPT ![<<dev, reg>>] = int(byte_data) % 256]])

\* bidict's inverse lookup d[:v]: the key, or None where Python raises KeyError.
bidict_inv(d, v) ==
  IF \E key \in DOMAIN d : d[key] = v
  THEN Some(CHOOSE key \in DOMAIN d : d[key] = v)
  ELSE None

-----------------------------------------------------------------------------
(* class ADXL345                                                           *)

ADXL345_ADDRESS == \h53
OFSX == \h1E
OFSY == \h1F
OFSZ == \h20
BW_RATE == \h2C
POWER_CTL == \h2D
DATA_FORMAT == \h31
DATAX0 == \h32
DATAX1 == \h33
DATAY0 == \h34
DATAY1 == \h35
DATAZ0 == \h36
DATAZ1 == \h37

\* Data range (+/-g) --> range bits
ADXL345_DATA_RANGES == (2 :> 0) @@ (4 :> 1) @@ (8 :> 2) @@ (16 :> 3)

\* Data range (+/-g) --> scale factor (mg / LSB): 3.9, 7.8, 15.6, 31.2
ADXL345_SCALE_FACTORS ==
  (2 :> <<39, 10>>) @@ (4 :> <<39, 5>>) @@ (8 :> <<78, 5>>) @@ (16 :> <<156, 5>>)

\* 15.6 mg / LSB
OFFSET_REGISTERS_SCALE_FACTOR == <<78, 5>>

\* Data rate --> rate bits.  A rate is written in 1/100 Hz: 3200 Hz is
\* 320000, 12.5 Hz is 1250, 0.10 Hz is 10.
DATA_RATES ==
  (320000 :> 15) @@ (160000 :> 14) @@ (80000 :> 13) @@ (40000 :> 12) @@
  (20000 :> 11) @@ (10000 :> 10) @@ (5000 :> 9) @@ (2500 :> 8) @@
  (1250 :> 7) @@ (625 :> 6) @@ (313 :> 5) @@ (156 :> 4) @@
  (78 :> 3) @@ (39 :> 2) @@ (20 :> 1) @@ (10 :> 0)

\* _get_raw_xyz handing the two bytes of each axis over in the wrong order.
get_raw_xyz_swapped(e) ==
  LET x0 == I2C_getitem(e, ADXL345_ADDRESS, DATAX0)
      x1 == I2C_getitem(x0, ADXL345_ADDRESS, DATAX1)
      y0 == I2C_getitem(x1, ADXL345_ADDRESS, DATAY0)
      y1 == I2C_getitem(y0, ADXL345_ADDRESS, DATAY1)
      z0 == I2C_getitem(y1, ADXL345_ADDRESS, DATAZ0)
      z1 == I2C_getitem(z0, ADXL345_ADDRESS, DATAZ1)
  IN  Return(z1, <<TwosComplement(x1.val, Some(x0.val)),
                   TwosComplement(y1.val, Some(y0.val)),
                   TwosComplement(z1.val, Some(z0.val))>>)

\* ADXL345._get_raw_xyz
get_raw_xyz(e) ==
  LET x0 == I2C_getitem(e, ADXL345_ADDRESS, DATAX0)
      x1 == I2C_getitem(x0, ADXL345_ADDRESS, DATAX1)
      y0 == I2C_getitem(x1, ADXL345_ADDRESS, DATAY0)
      y1 == I2C_getitem(y0, ADXL345_ADDRESS, DATAY1)
      z0 == I2C_getitem(y1, ADXL345_ADDRESS, DATAZ0)
      z1 == I2C_getitem(z0, ADXL345_ADDRESS, DATAZ1)
  IN  Return(z1, <<TwosComplement(x0.val, Some(x1.val)),
                   TwosComplement(y0.val, Some(y1.val)),
                   TwosComplement(z0.val, Some(z1.val))>>)

\* ADXL345.read
ADXL345_read(e) ==
  Once(get_raw_xyz(e), LAMBDA r :
    IF r.err # "None" THEN r
    ELSE Return(r, <<as_dec(r.val[1]), as_dec(r.val[2]), as_dec(r.val[3])>>))

\* ADXL345.start
ADXL345_start(e) ==
  Return(I2C_setitem(e, ADXL345_ADDRESS, POWER_CTL, PyInt(8)), None)

\* ADXL345.stop
ADXL345_stop(e) ==
  Return(I2C_setitem(e, ADXL345_ADDRESS, POWER_CTL, PyInt(0)), None)

\* ADXL345.get_data_rate
ADXL345_get_data_rate(e) ==
  LET r == I2C_getitem(e, ADXL345_ADDRESS, BW_RATE)
  IN  IF r.err # "None" THEN r
      ELSE LET rate == bidict_inv(DATA_RATES, r.val % 16)
           IN  IF rate = None THEN Raise(r, "KeyError") ELSE Return(r, rate[1])

\* set_data_rate touching the register before it looks the rate up.
ADXL345_set_data_rate_write_first(e, rate) ==
  IF rate \in DOMAIN DATA_RATES
  THEN Return(I2C_setitem(e, ADXL345_ADDRESS, BW_RATE, PyInt(DATA_RATES[rate])),
              None)
  ELSE Raise(I2C_setitem(e, ADXL345_ADDRESS, BW_RATE, PyInt(0)), "ValueError")

\* ADXL345.set_data_rate
ADXL345_set_data_rate(e, rate) ==
  IF rate \in DOMAIN DATA_RATES
  THEN Return(I2C_setitem(e, ADXL345_ADDRESS, BW_RATE, PyInt(DATA_RATES[rate])),
              None)
  ELSE Raise(e, "ValueError")

\* ADXL345.get_data_range
ADXL345_get_data_range(e) ==
  LET r == I2C_getitem(e, ADXL345_ADDRESS, DATA_FORMAT)
  IN  IF r.err # "None" THEN r
      ELSE LET range == bidict_inv(ADXL345_DATA_RANGES, r.val % 4)
           IN  IF range = None THEN Raise(r, "KeyError") ELSE Return(r, range[1])

\* ADXL345.set_data_range
ADXL345_set_data_range(e, data_range) ==
  IF data_range \in DOMAIN ADXL345_DATA_RANGES
  THEN Return(I2C_setitem(e, ADXL345_ADDRESS, DATA_FORMAT,
                          PyInt(ADXL345_DATA_RANGES[data_range])), None)
  ELSE Raise(e, "ValueError")

RDiv(x, y) == RMul(x, Rat(y[2], y[1]))

\* ADXL345._scale_to_match_offset_register
scale_to_match_offset_register(value, data_range) ==
  LET scale_factor == ADXL345_SCALE_FACTORS[data_range]
  IN  RMul(value, RDiv(scale_factor, OFFSET_REGISTERS_SCALE_FACTOR))

\* self._i2c[reg] = TwosComplement.from_decimal(x): the right-hand side is
\* evaluated first and may raise before the write is issued.
set_offset_register(e, reg, x) ==
  IF e.err # "None" THEN e
  ELSE LET t == from_decimal(x)
       IN  IF Raised(t) THEN Raise(e, t.exc)
           ELSE I2C_setitem(e, ADXL345_ADDRESS, reg, t)

\* ADXL345.set_offset
ADXL345_set_offset(e, offset_x, offset_y, offset_z) ==
  LET r == ADXL345_get_data_range(e)
  IN  IF r.err # "None" THEN r
      ELSE LET data_range == r.val
               scaled_x == scale_to_match_offset_register(offset_x, data_range)
               scaled_y == scale_to_match_offset_register(offset_y, data_range)
               scaled_z == scale_to_match_offset_register(offset_z, data_range)
               wx == set_offset_register(r, OFSX, RNeg(scaled_x))
               wy == set_offset_register(wx, OFSY, RNeg(scaled_y))
               wz == set_offset_register(wy, OFSZ, RNeg(scaled_z))
           IN  Return(wz, None)

-----------------------------------------------------------------------------
(* class L3G4200D                                                          *)

L3G4200D_ADDRESS == \h69
CTRL_REG4 == \h23
OUT_X_L == \h28
OUT_X_H == \h29
OUT_Y_L == \h2A
OUT_Y_H == \h2B
OUT_Z_L == \h2C
OUT_Z_H == \h2D

\* Data range (+/-dps) --> range bits
L3G4200D_DATA_RANGES == (250 :> 0) @@ (500 :> 1) @@ (2000 :> 2)

\* Data range (+/-dps) --> scale factor (mdps / LSB): 8.75, 17.50, 70
L3G4200D_SCALE_FACTORS ==
  (250 :> <<35, 4>>) @@ (500 :> <<35, 2>>) @@ (2000 :> <<70, 1>>)

\* L3G4200D.get_data_range
L3G4200D_get_data_range(e) ==
  LET r == I2C_getitem(e, L3G4200D_ADDRESS, CTRL_REG4)
  IN  IF r.err # "None" THEN r
      ELSE LET full_scale_bits == (r.val \div 16) % 4
               range == bidict_inv(L3G4200D_DATA_RANGES, full_scale_bits)
           IN  IF range = None THEN Raise(r, "KeyError") ELSE Return(r, range[1])

\* set_data_range writing the range bits without shifting them to bits 5:4.
L3G4200D_set_data_range_unshifted(e, data_range) ==
  IF data_range \in DOMAIN L3G4200D_DATA_RANGES
  THEN Return(I2C_setitem(e, L3G4200D_ADDRESS, CTRL_REG4,
                          PyInt(L3G4200D_DATA_RANGES[data_range])), None)
  ELSE Raise(e, "ValueError")

\* L3G4200D.set_data_range
L3G4200D_set_data_range(e, data_range) ==
  IF data_range \in DOMAIN L3G4200D_DATA_RANGES
  THEN Return(I2C_setitem(e, L3G4200D_ADDRESS, CTRL_REG4,
                          PyInt(L3G4200D_DATA_RANGES[data_range] * 16)), None)
  ELSE Raise(e, "ValueError")

\* L3G4200D.read
\* read scaling by the 250 dps factor without asking the device its range.
L3G4200D_read_fixed_range(e, raw) ==
  LET xl == I2C_getitem(e, L3G4200D_ADDRESS, OUT_X_L)
      xh == I2C_getitem(xl, L3G4200D_ADDRESS, OUT_X_H)
      yl == I2C_getitem(xh, L3G4200D_ADDRESS, OUT_Y_L)
      yh == I2C_getitem(yl, L3G4200D_ADDRESS, OUT_Y_H)
      zl == I2C_getitem(yh, L3G4200D_ADDRESS, OUT_Z_L)
      zh == I2C_getitem(zl, L3G4200D_ADDRESS, OUT_Z_H)
  IN  IF zh.err # "None" THEN zh
      ELSE LET x == as_dec(TwosComplement(xl.val, Some(xh.val)))
               y == as_dec(TwosComplement(yl.val, Some(yh.val)))
               z == as_dec(TwosComplement(zl.val, Some(zh.val)))
               dps_per_lsb == RDiv(L3G4200D_SCALE_FACTORS[250], <<1000, 1>>)
           IN  IF raw THEN Return(zh, <<x, y, z>>)
               ELSE Return(zh, <<RMul(dps_per_lsb, Int2Rat(x)),
                                 RMul(dps_per_lsb, Int2Rat(y)),
                                 RMul(dps_per_lsb, Int2Rat(z))>>)

\* L3G4200D.read
L3G4200D_read(e, raw) ==
  LET xl == I2C_getitem(e, L3G4200D_ADDRESS, OUT_X_L)
      xh == I2C_getitem(xl, L3G4200D_ADDRESS, OUT_X_H)
      yl == I2C_getitem(xh, L3G4200D_ADDRESS, OUT_Y_L)
      yh == I2C_getitem(yl, L3G4200D_ADDRESS, OUT_Y_H)
      zl == I2C_getitem(yh, L3G4200D_ADDRESS, OUT_Z_L)
      zh == I2C_getitem(zl, L3G4200D_ADDRESS, OUT_Z_H)
  IN  IF zh.err # "None" THEN zh
      ELSE LET x == TwosComplement(xl.val, Some(xh.val))
               y == TwosComplement(yl.val, Some(yh.val))
               z == TwosComplement(zl.val, Some(zh.val))
           IN  IF raw
               THEN Return(zh, <<as_dec(x), as_dec(y), as_dec(z)>>)
               ELSE LET r == L3G4200D_get_data_range(zh)
                    IN  IF r.err # "None" THEN r
                        ELSE LET dps_per_lsb ==
                                   RDiv(L3G4200D_SCALE_FACTORS[r.val], <<1000, 1>>)
                             IN  Return(r, <<RMul(dps_per_lsb, Int2Rat(as_dec(x))),
                                             RMul(dps_per_lsb, Int2Rat(as_dec(y))),
                                             RMul(dps_per_lsb, Int2Rat(as_dec(z)))>>)

-----------------------------------------------------------------------------
(* class AHRS                                                              *)

\* math.degrees(math.atan2(y, x)) for ints, where the angle is a rational
\* number of degrees (a multiple of 45); the samples of the model stay there.
atan2_degrees(y, x) ==
  CASE y = 0 /\ x >= 0 -> Int2Rat(0)
    [] y = 0 /\ x < 0 -> Int2Rat(180)
    [] x = 0 /\ y > 0 -> Int2Rat(90)
    [] x = 0 /\ y < 0 -> Int2Rat(-90)
    [] y = x /\ y > 0 -> Int2Rat(45)
    [] y = -x /\ y > 0 -> Int2Rat(135)
    [] y = -x /\ y < 0 -> Int2Rat(-45)
    [] y = x /\ y < 0 -> Int2Rat(-135)

\* math.degrees(math.atan2(y, math.sqrt(q))) for an int y and q >= 0, where
\* the angle is a rational number of degrees.
atan2_sqrt_degrees(y, q) ==
  CASE y = 0 -> Int2Rat(0)
    [] q = 0 /\ y > 0 -> Int2Rat(90)
    [] q = 0 /\ y < 0 -> Int2Rat(-90)
    [] y * y = q /\ y > 0 -> Int2Rat(45)
    [] y * y = q /\ y < 0 -> Int2Rat(-45)

\* AHRS._get_accel_attitude
get_accel_attitude(e) ==
  Once(ADXL345_read(e), LAMBDA r :
    IF r.err # "None" THEN r
    ELSE LET x == r.val[1]
             y == r.val[2]
             z == r.val[3]
             pitch == atan2_degrees(-x, z)
             roll == atan2_sqrt_degrees(y, x * x + z * z)
         IN  Return(r, <<pitch, roll>>))

\* self._gyro.read(): the L3G4200D driver, or an injected object (the tests'
\* mock) that returns rates without touching the bus.
gyro_read(e, kind, rates) ==
  IF kind = "L3G4200D" THEN L3G4200D_read(e, FALSE) ELSE Return(e, rates)

\* _get_gyro_angles leaving _last_read_time unset on the first read.
get_gyro_angles_no_timestamp(e, kind, rates, lrt, time_now) ==
  Once(gyro_read(e, kind, rates), LAMBDA r :
    IF r.err # "None" THEN r
    ELSE IF lrt = None
    THEN Return(r, [g |-> <<None, None, None>>, rates |-> r.val,
                    last_read_time |-> None])
    ELSE LET dt == Rat(time_now - lrt[1], 100)
         IN  Return(r, [g |-> <<Some(RMul(r.val[1], dt)),
                                Some(RMul(r.val[2], dt)),
                                Some(RMul(r.val[3], dt))>>,
                        rates |-> r.val,
                        last_read_time |-> Some(time_now)]))

\* AHRS._get_gyro_angles; time_now is what datetime.now() returns.  The value
\* is the returned triple g, the rates read, and the new _last_read_time.
get_gyro_angles(e, kind, rates, lrt, time_now) ==
  Once(gyro_read(e, kind, rates), LAMBDA r :
    IF r.err # "None" THEN r
    ELSE IF lrt = None
    THEN Return(r, [g |-> <<None, None, None>>, rates |-> r.val,
                    last_read_time |-> Some(time_now)])
    ELSE LET dt == Rat(time_now - lrt[1], 100)
         IN  Return(r, [g |-> <<Some(RMul(r.val[1], dt)),
                                Some(RMul(r.val[2], dt)),
                                Some(RMul(r.val[3], dt))>>,
                        rates |-> r.val,
                        last_read_time |-> Some(time_now)]))

\* The new _int_pitch blended with the accelerometer's pitch.
filter_pitch_with_a_pitch(kk, ip, g_dx, a_pitch, a_roll) ==
  RAdd(RMul(kk, RAdd(ip, g_dx)), RMul(RSub(Int2Rat(1), kk), a_pitch))

\* calculate's filter branch, the new _int_pitch:
\* self._k * (self._int_pitch + g_dx) + (1 - self._k) * a_roll
filter_pitch(kk, ip, g_dx, a_pitch, a_roll) ==
  RAdd(RMul(kk, RAdd(ip, g_dx)), RMul(RSub(Int2Rat(1), kk), a_roll))

\* calculate's filter branch, the new _int_roll:
\* self._k * (self._int_roll + g_dy) + (1 - self._k) * a_roll
filter_roll(kk, ir, g_dy, a_pitch, a_roll) ==
  RAdd(RMul(kk, RAdd(ir, g_dy)), RMul(RSub(Int2Rat(1), kk), a_roll))

\* AHRS.calculate: the outcome as a record of the execution, the new fields
\* and the locals.
calculate(e, kind, rates, time_now) ==
  Once(get_accel_attitude(e), LAMBDA a :
  Once(get_gyro_angles(a, kind, rates, last_read_time, time_now), LAMBDA g :
    IF g.err # "None"
    THEN [e |-> g, last_read_time |-> last_read_time,
          int_pitch |-> int_pitch, int_roll |-> int_roll,
          a_att |-> a_att, gyro_rates |-> gyro_rates, g_d |-> g_d]
    ELSE LET a_pitch == a.val[1]
             a_roll == a.val[2]
             gd == g.val.g
             seed == \E i \in 1..3 : gd[i] = None
             p == IF seed THEN a_pitch
                  ELSE filter_pitch(k, int_pitch, gd[1][1], a_pitch, a_roll)
             r == IF seed THEN a_roll
                  ELSE filter_roll(k, int_roll, gd[2][1], a_pitch, a_roll)
         IN  [e |-> Return(g, <<p, r, 360>>),
              last_read_time |-> g.val.last_read_time,
              int_pitch |-> p, int_roll |-> r,
              a_att |-> Some(<<a_pitch, a_roll>>),
              gyro_rates |-> Some(g.val.rates), g_d |-> Some(gd)]))

\* The methods class L3G4200D defines.
L3G4200D_methods == {"read", "set_data_range", "get_data_range"}

\* self._gyro.<name>(...) for a method that touches no register: the L3G4200D
\* raises AttributeError for a name its class does not define; an injected
\* object (the tests' Mock) takes every call.
gyro_call(e, kind, name) ==
  IF kind = "L3G4200D" /\ name \notin L3G4200D_methods
  THEN Raise(e, "AttributeError")
  ELSE Return(e, None)

\* AHRS.create_from_bus: accel.start(), gyro.start(), cls(accel, gyro, k).
create_from_bus(e) ==
  Once(ADXL345_start(e), LAMBDA a :
    IF a.err # "None" THEN a ELSE gyro_call(a, "L3G4200D", "start"))

\* The sums calibrate starts from: gx, gy, gz and ax, ay, az, all 0.0.
NoSums ==
  [g |-> <<Int2Rat(0), Int2Rat(0), Int2Rat(0)>>,
   a |-> <<Int2Rat(0), Int2Rat(0), Int2Rat(0)>>]

\* calibrate's loop, from iteration i on: while i < n_samples, a gyro read
\* and an accelerometer read are added to the sums s.
RECURSIVE calibrate_loop(_, _, _, _, _, _)
calibrate_loop(e0, kind, rates, i, n_samples, s) ==
  IF ~(i < n_samples) THEN Return(e0, s)
  ELSE Once(gyro_read(e0, kind, rates), LAMBDA g :
         IF g.err # "None" THEN g
         ELSE Once(ADXL345_read(g), LAMBDA a :
                IF a.err # "None" THEN a
                ELSE calibrate_loop(a, kind, rates, i + 1, n_samples,
                       [g |-> <<RAdd(s.g[1], g.val[1]),
                                RAdd(s.g[2], g.val[2]),
                                RAdd(s.g[3], g.val[3])>>,
                        a |-> <<RAdd(s.a[1], Int2Rat(a.val[1])),
                                RAdd(s.a[2], Int2Rat(a.val[2])),
                                RAdd(s.a[3], Int2Rat(a.val[3]))>>])))

\* AHRS.calibrate
calibrate(e, kind, rates, n_samples) ==
  Once(calibrate_loop(e, kind, rates, 0, n_samples, NoSums), LAMBDA l :
    IF l.err # "None" THEN l
    ELSE IF n_samples = 0 THEN Raise(l, "ZeroDivisionError")
    ELSE LET n == Int2Rat(n_samples)
             ax == RDiv(l.val.a[1], n)
             ay == RDiv(l.val.a[2], n)
             az == RSub(RDiv(l.val.a[3], n), Int2Rat(256))
         IN  Once(ADXL345_set_offset(l, ax, ay, az), LAMBDA o :
               IF o.err # "None" THEN o
               ELSE gyro_call(o, kind, "set_offset")))

-----------------------------------------------------------------------------
(* Bounds and input sets.                                                  *)

\* from_decimal is tried on every integer of -DecimalLimit..DecimalLimit.
DecimalLimit == 32770

\* The floats of test_GIVEN_floats_WHEN_make_from_decimal: -3.3, 5.5, -0.5, 1.1
FloatDecimals == {<<-33, 10>>, <<11, 2>>, <<-1, 2>>, <<11, 10>>}

Decimals == {Int2Rat(d) : d \in -DecimalLimit..DecimalLimit} \cup FloatDecimals

AccelRegisters ==
  {OFSX, OFSY, OFSZ, BW_RATE, POWER_CTL, DATA_FORMAT,
   DATAX0, DATAX1, DATAY0, DATAY1, DATAZ0, DATAZ1}

GyroRegisters ==
  {CTRL_REG4, OUT_X_L, OUT_X_H, OUT_Y_L, OUT_Y_H, OUT_Z_L, OUT_Z_H}

Registers ==
  {<<ADXL345_ADDRESS, r>> : r \in AccelRegisters} \cup
  {<<L3G4200D_ADDRESS, r>> : r \in GyroRegisters}

\* Every register cleared.
Cleared == [a \in Registers |-> 0]

\* The two bytes of a 16-bit register pair holding the signed value v.
LowByte(v) == (v % 65536) % 256
HighByte(v) == (v % 65536) \div 256

\* The registers with the accelerometer's data registers holding sample s.
WithAccelSample(rg, s) ==
  [rg EXCEPT ![<<ADXL345_ADDRESS, DATAX0>>] = LowByte(s[1]),
             ![<<ADXL345_ADDRESS, DATAX1>>] = HighByte(s[1]),
             ![<<ADXL345_ADDRESS, DATAY0>>] = LowByte(s[2]),
             ![<<ADXL345_ADDRESS, DATAY1>>] = HighByte(s[2]),
             ![<<ADXL345_ADDRESS, DATAZ0>>] = LowByte(s[3]),
             ![<<ADXL345_ADDRESS, DATAZ1>>] = HighByte(s[3])]

\* The registers with the gyroscope's data registers holding sample s.
WithGyroSample(rg, s) ==
  [rg EXCEPT ![<<L3G4200D_ADDRESS, OUT_X_L>>] = LowByte(s[1]),
             ![<<L3G4200D_ADDRESS, OUT_X_H>>] = HighByte(s[1]),
             ![<<L3G4200D_ADDRESS, OUT_Y_L>>] = LowByte(s[2]),
             ![<<L3G4200D_ADDRESS, OUT_Y_H>>] = HighByte(s[2]),
             ![<<L3G4200D_ADDRESS, OUT_Z_L>>] = LowByte(s[3]),
             ![<<L3G4200D_ADDRESS, OUT_Z_H>>] = HighByte(s[3])]

NoCall == [op |-> "none", args |-> <<>>]

\* The codec's variables when no number is being converted.
CodecIdle == decimal = Int2Rat(0) /\ twos = None

\* The fields of an AHRS as the class declares them, with no AHRS in use.
AHRSIdle ==
  /\ k = <<97, 100>>
  /\ gyro = "L3G4200D"
  /\ last_read_time = None
  /\ int_pitch = Int2Rat(0)
  /\ int_roll = Int2Rat(0)
  /\ now = 0
  /\ a_att = None
  /\ gyro_rates = None
  /\ g_d = None

NoCallYet == call = NoCall /\ ret = None /\ err = "None" /\ log = <<>>

\* What a call leaves behind: the registers, the transactions, the result.
Finish(op, args, e) ==
  /\ call' = [op |-> op, args |-> args]
  /\ regs' = e.regs
  /\ log' = e.log
  /\ err' = e.err
  /\ ret' = IF e.err = "None" THEN Some(e.val) ELSE None

-----------------------------------------------------------------------------
(* The codec alone: a number is drawn, encoded, and decoded again.         *)

InitCodec ==
  /\ decimal \in Decimals
  /\ twos = None
  /\ regs = Cleared
  /\ NoCallYet
  /\ AHRSIdle

FromDecimal ==
  /\ call.op = "none"
  /\ LET t == from_decimal(decimal)
     IN  /\ twos' = IF Raised(t) THEN None ELSE Some(t)
         /\ err' = IF Raised(t) THEN t.exc ELSE "None"
  /\ call' = [op |-> "from_decimal", args |-> <<decimal>>]
  /\ ret' = None
  /\ UNCHANGED <<decimal, regs, log>>
  /\ UNCHANGED ahrsVars

AsDec ==
  /\ call.op = "from_decimal"
  /\ twos # None
  /\ call' = [op |-> "as_dec", args |-> <<>>]
  /\ ret' = Some(as_dec(twos[1]))
  /\ UNCHANGED <<decimal, twos, regs, log, err>>
  /\ UNCHANGED ahrsVars

NextCodec == FromDecimal \/ AsDec

SpecCodec == InitCodec /\ [][NextCodec]_vars

\* The number drawn is an integer.
IsInteger(x) == x[2] = 1

\* C1: for every integer d with -32768 <= d <= 32767, from_decimal(d) returns
\* an instance and its as_dec() is d again.
C1_RoundTrip ==
  (IsInteger(decimal) /\ -32768 <= decimal[1] /\ decimal[1] <= 32767) =>
    /\ call.op = "from_decimal" => (err = "None" /\ twos # None)
    /\ call.op = "as_dec" => ret = Some(decimal[1])

\* A 16-bit negative number has been encoded and decoded back.
C1_Witness ==
  /\ call.op = "as_dec"
  /\ decimal = Int2Rat(-32768)
  /\ twos[1].bits = 16
  /\ ret = Some(-32768)

\* C2: from_decimal(d) for an integer d gives width 8 with raw d for
\* 0 <= d <= 127 and raw 256 - |d| for -128 <= d < 0, width 16 with raw d for
\* 128 <= d <= 32767 and raw 65536 - |d| for -32768 <= d < -128, and raises
\* ValueError for d >= 32768 and for d <= -32769; the raw value of every
\* instance lies in 0 .. 2^width - 1.
C2_EncodeResult ==
  (IsInteger(decimal) /\ call.op # "none") =>
    LET d == decimal[1]
    IN  /\ (0 <= d /\ d <= 127) => twos = Some([bin_val |-> d, bits |-> 8])
        /\ (-128 <= d /\ d < 0) => twos = Some([bin_val |-> 256 + d, bits |-> 8])
        /\ (128 <= d /\ d <= 32767) => twos = Some([bin_val |-> d, bits |-> 16])
        /\ (-32768 <= d /\ d < -128) =>
              twos = Some([bin_val |-> 65536 + d, bits |-> 16])
        /\ (d >= 32768 \/ d <= -32769) => (err = "ValueError" /\ twos = None)
        /\ twos # None =>
              (0 <= twos[1].bin_val /\ twos[1].bin_val < 2 ^ twos[1].bits)

\* -128, the last number of the 8-bit encoding, has been encoded.
C2_Witness ==
  /\ call.op = "from_decimal"
  /\ decimal = Int2Rat(-128)
  /\ twos = Some([bin_val |-> 128, bits |-> 8])

-----------------------------------------------------------------------------
(* The drivers' calls.  failAt ranges over the transactions a call can     *)
(* issue, so the transport may fail on any of them, or on none (0).        *)

\* Register contents found at power-up or left by other software.
InitBytes == {0, 145, 255}

\* Arguments of ADXL345.set_data_range: the table's and others.
RangeArgs == {2, 4, 8, 16, 0, -2, 3, 32}

\* Arguments of ADXL345.set_data_rate (1/100 Hz): the table's and others.
RateArgs == DOMAIN DATA_RATES \cup {0, -20000, 10100, 5}

\* Arguments of L3G4200D.set_data_range: the table's and others.
GyroRangeArgs == {250, 500, 2000, 0, 450, 1000}

\* Raw gyroscope samples (x, y, z).
GyroSamples == {<<0, 0, 0>>, <<800, -1600, 2400>>}

AccelStart ==
  /\ \E failAt \in 0..1 : Finish("ADXL345.start", <<>>, ADXL345_start(Begin(failAt)))
  /\ UNCHANGED codecVars
  /\ UNCHANGED ahrsVars

AccelStop ==
  /\ \E failAt \in 0..1 : Finish("ADXL345.stop", <<>>, ADXL345_stop(Begin(failAt)))
  /\ UNCHANGED codecVars
  /\ UNCHANGED ahrsVars

AccelGetDataRate ==
  /\ \E failAt \in 0..1 :
       Finish("ADXL345.get_data_rate", <<>>, ADXL345_get_data_rate(Begin(failAt)))
  /\ UNCHANGED codecVars
  /\ UNCHANGED ahrsVars

AccelSetDataRate ==
  /\ \E rate \in RateArgs, failAt \in 0..1 :
       Finish("ADXL345.set_data_rate", <<rate>>,
              ADXL345_set_data_rate(Begin(failAt), rate))
  /\ UNCHANGED codecVars
  /\ UNCHANGED ahrsVars

AccelGetDataRange ==
  /\ \E failAt \in 0..1 :
       Finish("ADXL345.get_data_range", <<>>, ADXL345_get_data_range(Begin(failAt)))
  /\ UNCHANGED codecVars
  /\ UNCHANGED ahrsVars

AccelSetDataRange ==
  /\ \E data_range \in RangeArgs, failAt \in 0..1 :
       Finish("ADXL345.set_data_range", <<data_range>>,
              ADXL345_set_data_range(Begin(failAt), data_range))
  /\ UNCHANGED codecVars
  /\ UNCHANGED ahrsVars

AccelRead ==
  /\ \E failAt \in 0..6 : Finish("ADXL345.read", <<>>, ADXL345_read(Begin(failAt)))
  /\ UNCHANGED codecVars
  /\ UNCHANGED ahrsVars

GyroGetDataRange ==
  /\ \E failAt \in 0..1 :
       Finish("L3G4200D.get_data_range", <<>>, L3G4200D_get_data_range(Begin(failAt)))
  /\ UNCHANGED codecVars
  /\ UNCHANGED ahrsVars

GyroSetDataRange ==
  /\ \E data_range \in GyroRangeArgs, failAt \in 0..1 :
       Finish("L3G4200D.set_data_range", <<data_range>>,
              L3G4200D_set_data_range(Begin(failAt), data_range))
  /\ UNCHANGED codecVars
  /\ UNCHANGED ahrsVars

GyroRead ==
  /\ \E raw \in BOOLEAN, failAt \in 0..7 :
       Finish("L3G4200D.read", <<raw>>, L3G4200D_read(Begin(failAt), raw))
  /\ UNCHANGED codecVars
  /\ UNCHANGED ahrsVars

\* Arguments of ADXL345.set_offset (raw counts per axis): the test's offsets,
\* and a y offset that needs 16 bits at 2, 4 and 8 g and more than 16 at 16 g.
OffsetArgs == {<<10, -13, 9>>, <<10, 20000, 9>>}

AccelSetOffset ==
  /\ \E o \in OffsetArgs, failAt \in 0..4 :
       Finish("ADXL345.set_offset", o,
              ADXL345_set_offset(Begin(failAt), Int2Rat(o[1]), Int2Rat(o[2]),
                                 Int2Rat(o[3])))
  /\ UNCHANGED codecVars
  /\ UNCHANGED ahrsVars

-----------------------------------------------------------------------------
(* The range and rate calls of both drivers, on registers that start with *)
(* any of InitBytes in the three configuration registers.                  *)

InitDriver ==
  /\ \E df \in InitBytes, bw \in InitBytes, c4 \in InitBytes :
       regs = WithGyroSample([Cleared EXCEPT ![<<ADXL345_ADDRESS, DATA_FORMAT>>] = df,
                                             ![<<ADXL345_ADDRESS, BW_RATE>>] = bw,
                                             ![<<L3G4200D_ADDRESS, CTRL_REG4>>] = c4],
                             <<800, -1600, 2400>>)
  /\ NoCallYet
  /\ CodecIdle
  /\ AHRSIdle

NextDriver ==
  \/ AccelGetDataRate
  \/ AccelSetDataRate
  \/ AccelGetDataRange
  \/ AccelSetDataRange
  \/ GyroGetDataRange
  \/ GyroSetDataRange
  \/ GyroRead

SpecDriver == InitDriver /\ [][NextDriver]_vars

\* The sixteen output data rates of the ADXL345, in 1/100 Hz.
ListedRates ==
  {320000, 160000, 80000, 40000, 20000, 10000, 5000, 2500,
   1250, 625, 313, 156, 78, 39, 20, 10}

\* C7: through the register store, get_data_range() after set_data_range(v)
\* returns v for the accelerometer's and for the gyroscope's ranges, and
\* get_data_rate() after set_data_rate(v) returns v for each listed rate,
\* whatever the register held before.
C7_GetAfterSet ==
  /\ (call.op = "ADXL345.set_data_range" /\ call.args[1] \in {2, 4, 8, 16}) =>
       /\ err # "ValueError"
       /\ err = "None" =>
            LET got == ADXL345_get_data_range(Begin(0))
            IN  got.err = "None" /\ got.val = call.args[1]
  /\ (call.op = "ADXL345.set_data_rate" /\ call.args[1] \in ListedRates) =>
       /\ err # "ValueError"
       /\ err = "None" =>
            LET got == ADXL345_get_data_rate(Begin(0))
            IN  got.err = "None" /\ got.val = call.args[1]
  /\ (call.op = "L3G4200D.set_data_range" /\ call.args[1] \in {250, 500, 2000}) =>
       /\ err # "ValueError"
       /\ err = "None" =>
            LET got == L3G4200D_get_data_range(Begin(0))
            IN  got.err = "None" /\ got.val = call.args[1]

\* The gyroscope's range has been set to 2000 dps over a register that held
\* 0b10010001 or 0xFF, and reads back from bits 5:4.
C7_Witness ==
  /\ call.op = "L3G4200D.set_data_range"
  /\ call.args = <<2000>>
  /\ err = "None"
  /\ regs[<<L3G4200D_ADDRESS, CTRL_REG4>>] = 32

\* The call c is a range or rate setter given a value its table does not list.
InvalidSet(c) ==
  \/ c.op = "ADXL345.set_data_range" /\ c.args[1] \notin {2, 4, 8, 16}
  \/ c.op = "ADXL345.set_data_rate" /\ c.args[1] \notin ListedRates
  \/ c.op = "L3G4200D.set_data_range" /\ c.args[1] \notin {250, 500, 2000}

\* C8: set_data_range and set_data_rate of the accelerometer and
\* set_data_range of the gyroscope, given a value not in the table, raise
\* ValueError having issued no bus transaction, and every register is as it
\* was before the call.
C8_InvalidRejected ==
  [][InvalidSet(call') => (err' = "ValueError" /\ log' = <<>> /\ regs' = regs)]_vars

\* An unlisted rate (101 Hz) has been refused.
C8_Witness ==
  /\ call.op = "ADXL345.set_data_rate"
  /\ call.args = <<10100>>
  /\ err = "ValueError"
  /\ log = <<>>

-----------------------------------------------------------------------------
(* The sensors' reads, on data registers holding any of LowBytes in the low *)
(* byte and any of HighBytes in the high byte of each axis.                *)

LowBytes == {0, 128, 255}
HighBytes == {0, 127, 128, 255}

\* The six data bytes of a sample: low, high of x, of y, of z.
DataBytes ==
  {<<xl, xh, yl, yh, zl, zh>> :
     xl \in LowBytes, xh \in HighBytes, yl \in LowBytes, yh \in HighBytes,
     zl \in LowBytes, zh \in HighBytes}

\* The registers with the six data registers of device dev, from first on,
\* holding the bytes b.
WithDataBytes(rg, dev, first, b) ==
  [a \in Registers |->
     IF a[1] = dev /\ a[2] >= first /\ a[2] < first + 6
     THEN b[a[2] - first + 1]
     ELSE rg[a]]

InitRead ==
  /\ \E b \in DataBytes :
       \/ regs = WithDataBytes(Cleared, ADXL345_ADDRESS, DATAX0, b)
       \/ regs = WithDataBytes(Cleared, L3G4200D_ADDRESS, OUT_X_L, b)
  /\ NoCallYet
  /\ CodecIdle
  /\ AHRSIdle

NextRead == AccelRead \/ GyroRead

SpecRead == InitRead /\ [][NextRead]_vars

\* The signed value of the 16-bit pattern made of a low and a high byte.
Signed16(low, high) ==
  IF high >= 128 THEN (high * 256 + low) - 65536 ELSE high * 256 + low

\* C6: ADXL345.read(), for any bytes in registers 0x32..0x37, issues exactly
\* six bus reads and no write, all to device 0x53, at 0x32, 0x33, 0x34, 0x35,
\* 0x36, 0x37 in this order, and returns for each axis the signed value of
\* (high << 8) | low, unscaled.
C6_AccelRead ==
  (call.op = "ADXL345.read" /\ err = "None") =>
    /\ Len(log) = 6
    /\ \A i \in 1..6 :
         /\ log[i].kind = "read"
         /\ log[i].dev = 83
         /\ log[i].reg = 49 + i
         /\ log[i].val = regs[<<83, 49 + i>>]
    /\ ret = Some(<<Signed16(regs[<<83, 50>>], regs[<<83, 51>>]),
                    Signed16(regs[<<83, 52>>], regs[<<83, 53>>]),
                    Signed16(regs[<<83, 54>>], regs[<<83, 55>>])>>)

\* A read has returned a negative x (0x80FF), a positive y whose low byte has
\* its top bit set (0x7F80) and z = -1.
C6_Witness ==
  /\ call.op = "ADXL345.read"
  /\ err = "None"
  /\ regs[<<83, 50>>] = 255 /\ regs[<<83, 51>>] = 128
  /\ regs[<<83, 52>>] = 128 /\ regs[<<83, 53>>] = 127
  /\ regs[<<83, 54>>] = 255 /\ regs[<<83, 55>>] = 255
  /\ ret = Some(<<-32513, 32640, -1>>)

-----------------------------------------------------------------------------
(* The accelerometer's writes: power control, data range and offsets, on a *)
(* data-format register that starts with any of InitBytes.                 *)

InitOffset ==
  /\ \E df \in InitBytes :
       regs = [Cleared EXCEPT ![<<ADXL345_ADDRESS, DATA_FORMAT>>] = df]
  /\ NoCallYet
  /\ CodecIdle
  /\ AHRSIdle

NextOffset ==
  \/ AccelStart
  \/ AccelStop
  \/ AccelSetDataRange
  \/ AccelSetOffset

SpecOffset == InitOffset /\ [][NextOffset]_vars

\* The offset o negated and rescaled for range bits b (factor 2^b / 4), then
\* rounded to the nearest integer, a tie going away from zero.
TrimValue(o, b) ==
  LET q == -(o * 2 ^ b)
  IN  IF q >= 0 THEN (q + 2) \div 4 ELSE -((-q + 2) \div 4)

\* C9: set_offset(ox, oy, oz), with bits 1:0 of the data-format register
\* selecting range r, reads the data-format register once and then writes, in
\* the order 0x1E, 0x1F, 0x20, the 8-bit two's-complement byte of each
\* axis's offset negated, rescaled by 1/4, 1/2, 1, 2 for r = 2, 4, 8, 16 and
\* rounded half away from zero (the values that fit 8 bits; C10 is about the
\* others).
C9_OffsetScaling ==
  LET b == regs[<<83, 49>>] % 4
      t == [i \in 1..3 |-> TrimValue(call.args[i], b)]
  IN  (/\ call.op = "ADXL345.set_offset"
       /\ \A i \in 1..3 : -128 <= t[i] /\ t[i] <= 127
       /\ \A i \in DOMAIN log : log[i].ok) =>
        /\ err = "None"
        /\ Len(log) = 4
        /\ log[1] = [kind |-> "read", dev |-> 83, reg |-> 49,
                     val |-> regs[<<83, 49>>], ok |-> TRUE]
        /\ \A i \in 1..3 :
             log[i + 1] = [kind |-> "write", dev |-> 83, reg |-> 29 + i,
                           val |-> t[i] % 256, ok |-> TRUE]

\* At range 2 g the offsets (10, -13, 9) have been written as 0xFD, 0x03, 0xFE.
C9_Witness ==
  /\ call.op = "ADXL345.set_offset"
  /\ call.args = <<10, -13, 9>>
  /\ err = "None"
  /\ regs[<<83, 49>>] % 4 = 0
  /\ Len(log) = 4
  /\ log[2].val = 253 /\ log[3].val = 3 /\ log[4].val = 254

\* C10: every value handed to the bus write primitive by start, stop,
\* set_data_range and set_offset is an integer of 0..255, also when the
\* negated, rescaled offset lies outside -128..127.
C10_WritesAreBytes ==
  \A i \in DOMAIN log :
    log[i].kind = "write" => (0 <= log[i].val /\ log[i].val <= 255)

\* The contents of the three offset-trim registers.
OffsetTrim(rg) ==
  <<rg[<<ADXL345_ADDRESS, OFSX>>], rg[<<ADXL345_ADDRESS, OFSY>>],
    rg[<<ADXL345_ADDRESS, OFSZ>>]>>

\* C11: whenever set_offset fails with the range error (a negated, rescaled
\* offset outside -32768..32767), the call has issued no bus transaction and
\* the three offset-trim registers hold what they held before the call.
C11_RangeErrorBeforeAccess ==
  [][(call'.op = "ADXL345.set_offset" /\ err' = "ValueError") =>
       (log' = <<>> /\ OffsetTrim(regs') = OffsetTrim(regs))]_vars

-----------------------------------------------------------------------------
(* An AHRS over the ADXL345 and a gyro (the L3G4200D, or an injected object *)
(* as in the tests), with the sensors' data registers changing between     *)
(* calls and the clock advancing.                                          *)

\* The clock stops the model at MaxTime (1/100 s); a call comes 1..MaxStep
\* later than the one before.
MaxTime == 3
MaxStep == 2

\* Filter constants: all accelerometer, an even blend, all gyroscope.
KValues == {<<0, 1>>, <<1, 2>>, <<1, 1>>}

\* Raw accelerometer samples (x, y, z) whose tilt is a rational number of
\* degrees: (pitch, roll) = (0, 0), (45, 0), (0, 45).
AccelSamples == {<<0, 0, 0>>, <<-256, 0, 256>>, <<0, 256, 256>>}

\* Rates (dps) returned by an injected gyro: at rest, and the test's.
MockRates ==
  {<<Int2Rat(0), Int2Rat(0), Int2Rat(0)>>,
   <<Int2Rat(1000), Int2Rat(-2000), Int2Rat(3000)>>}

\* Contents of the gyroscope's CTRL_REG4: 250 dps, and range bits 11.
GyroRangeBytes == {0, 48}

InitAHRS ==
  /\ k \in KValues
  /\ gyro \in {"L3G4200D", "Mock"}
  /\ \E a \in AccelSamples, g \in GyroSamples, c4 \in GyroRangeBytes :
       regs = WithGyroSample(WithAccelSample(
                [Cleared EXCEPT ![<<L3G4200D_ADDRESS, CTRL_REG4>>] = c4], a), g)
  /\ last_read_time = None
  /\ int_pitch = Int2Rat(0)
  /\ int_roll = Int2Rat(0)
  /\ now = 0
  /\ a_att = None
  /\ gyro_rates = None
  /\ g_d = None
  /\ NoCallYet
  /\ CodecIdle

\* The accelerometer puts a new sample into its data registers (the craft
\* tilts; the gyroscope's sample is the one the run began with).
HwSample ==
  /\ \E a \in AccelSamples : regs' = WithAccelSample(regs, a)
  /\ UNCHANGED <<log, call, ret, err>>
  /\ UNCHANGED codecVars
  /\ UNCHANGED ahrsVars

\* The transaction that fails is one the call can issue: 6 reads with an
\* injected gyro, 13 with the L3G4200D, which in turn has no injected rates.
Calculate ==
  /\ \E d \in 1..MaxStep,
        failAt \in 0..(IF gyro = "Mock" THEN 6 ELSE 13),
        rates \in (IF gyro = "Mock" THEN MockRates
                   ELSE {<<Int2Rat(0), Int2Rat(0), Int2Rat(0)>>}) :
       /\ now + d <= MaxTime
       /\ now' = now + d
       /\ \E c \in {calculate(Begin(failAt), gyro, rates, now + d)} :
              /\ Finish("AHRS.calculate", <<>>, c.e)
              /\ last_read_time' = c.last_read_time
              /\ int_pitch' = c.int_pitch
              /\ int_roll' = c.int_roll
              /\ a_att' = c.a_att
              /\ gyro_rates' = c.gyro_rates
              /\ g_d' = c.g_d
  /\ UNCHANGED <<k, gyro>>
  /\ UNCHANGED codecVars

NextAHRS == HwSample \/ Calculate

SpecAHRS == InitAHRS /\ [][NextAHRS]_vars

\* A step in which calculate() ran to its return statement.
CalculateReturned == now' # now /\ err' = "None"

\* The tilt (pitch, roll) of the sample in the accelerometer's data registers.
AccelTilt(rg) ==
  LET x == Signed16(rg[<<ADXL345_ADDRESS, DATAX0>>], rg[<<ADXL345_ADDRESS, DATAX1>>])
      y == Signed16(rg[<<ADXL345_ADDRESS, DATAY0>>], rg[<<ADXL345_ADDRESS, DATAY1>>])
      z == Signed16(rg[<<ADXL345_ADDRESS, DATAZ0>>], rg[<<ADXL345_ADDRESS, DATAZ1>>])
  IN  <<atan2_degrees(-x, z), atan2_sqrt_degrees(y, x * x + z * z)>>

ZeroRates == <<Int2Rat(0), Int2Rat(0), Int2Rat(0)>>

TestRates == <<Int2Rat(1000), Int2Rat(-2000), Int2Rat(3000)>>

\* C3: the first calculate() that returns, for any k and any gyro rates,
\* returns (accel_pitch, accel_roll, 360) of that cycle's accelerometer sample,
\* sets integrated_pitch and integrated_roll to those values and records
\* last_read_time; once recorded, last_read_time is never absent again, and
\* every later calculate() that returns has three gyro angles (it filters, it
\* does not seed again).
C3_Seeding ==
  [][/\ last_read_time # None => last_read_time' # None
     /\ CalculateReturned =>
          /\ last_read_time' = Some(now')
          /\ IF last_read_time = None
             THEN LET tilt == AccelTilt(regs')
                  IN  /\ ret' = Some(<<tilt[1], tilt[2], 360>>)
                      /\ int_pitch' = tilt[1]
                      /\ int_roll' = tilt[2]
                      /\ g_d' = Some(<<None, None, None>>)
             ELSE \A i \in 1..3 : g_d'[1][i] # None]_vars

\* The state the first calculate() leaves: seeded with the tilt (45, 0).
C3_Witness ==
  /\ call.op = "AHRS.calculate"
  /\ err = "None"
  /\ g_d = Some(<<None, None, None>>)
  /\ last_read_time = Some(now)
  /\ int_pitch = Int2Rat(45)
  /\ int_roll = Int2Rat(0)
  /\ ret = Some(<<Int2Rat(45), Int2Rat(0), 360>>)

\* C4: every calculate() that returns after the first sets
\* integrated_pitch' = k*(integrated_pitch + gx*dt) + (1-k)*accel_roll and
\* integrated_roll' = k*(integrated_roll + gy*dt) + (1-k)*accel_roll, with gx,
\* gy this cycle's gyro rates and dt the time since the previous timestamp,
\* and returns (integrated_pitch', integrated_roll', 360); with k = 1, seeded
\* at (0, 0), rates (1000, -2000, 3000) dps and dt = 0.01 s it gives pitch 10
\* and roll -20.
C4_FilterStep ==
  [][(CalculateReturned /\ last_read_time # None) =>
       LET dt == Rat(last_read_time'[1] - last_read_time[1], 100)
           gx == gyro_rates'[1][1]
           gy == gyro_rates'[1][2]
           accel_roll == AccelTilt(regs')[2]
           blend == RMul(RSub(Int2Rat(1), k), accel_roll)
           p == RAdd(RMul(k, RAdd(int_pitch, RMul(gx, dt))), blend)
           r == RAdd(RMul(k, RAdd(int_roll, RMul(gy, dt))), blend)
       IN  /\ int_pitch' = p
           /\ int_roll' = r
           /\ ret' = Some(<<p, r, 360>>)
           /\ (/\ k = Int2Rat(1)
               /\ int_pitch = Int2Rat(0)
               /\ int_roll = Int2Rat(0)
               /\ gyro_rates' = Some(TestRates)
               /\ dt = <<1, 100>>) =>
                  (int_pitch' = Int2Rat(10) /\ int_roll' = Int2Rat(-20))]_vars

\* An even blend has filtered a cycle whose accelerometer pitch (45) and roll
\* (0) differ, from the seed (0, 0), with the test's rates over 0.01 s:
\* pitch = (0 + 10) / 2 + 0 / 2, roll = (0 - 20) / 2 + 0 / 2.
C4_Witness ==
  /\ call.op = "AHRS.calculate"
  /\ err = "None"
  /\ k = <<1, 2>>
  /\ gyro_rates = Some(TestRates)
  /\ a_att = Some(<<Int2Rat(45), Int2Rat(0)>>)
  /\ int_pitch = Int2Rat(5)
  /\ int_roll = Int2Rat(-10)
  /\ ret = Some(<<Int2Rat(5), Int2Rat(-10), 360>>)

\* C5: with k < 1, when a calculate() in the Tracking state reads the same
\* accelerometer sample as the cycle before it and the gyro rates are zero in
\* both, the distance of integrated_pitch to accel_pitch and of
\* integrated_roll to accel_roll is k times what it was, and no larger.
C5_Converges ==
  [][(/\ CalculateReturned
      /\ last_read_time # None
      /\ k # Int2Rat(1)
      /\ a_att' = a_att
      /\ gyro_rates = Some(ZeroRates)
      /\ gyro_rates' = Some(ZeroRates)) =>
       LET accel_pitch == a_att'[1][1]
           accel_roll == a_att'[1][2]
           pitch_before == RAbs(RSub(int_pitch, accel_pitch))
           pitch_after == RAbs(RSub(int_pitch', accel_pitch))
           roll_before == RAbs(RSub(int_roll, accel_roll))
           roll_after == RAbs(RSub(int_roll', accel_roll))
       IN  /\ pitch_after = RMul(k, pitch_before)
           /\ roll_after = RMul(k, roll_before)
           /\ RLeq(pitch_after, pitch_before)
           /\ RLeq(roll_after, roll_before)]_vars

\* The registers one calculate() reads over the two drivers, in order: the
\* accelerometer's data registers, the gyroscope's, the gyroscope's range.
CalculateReads ==
  <<<<ADXL345_ADDRESS, DATAX0>>, <<ADXL345_ADDRESS, DATAX1>>,
    <<ADXL345_ADDRESS, DATAY0>>, <<ADXL345_ADDRESS, DATAY1>>,
    <<ADXL345_ADDRESS, DATAZ0>>, <<ADXL345_ADDRESS, DATAZ1>>,
    <<L3G4200D_ADDRESS, OUT_X_L>>, <<L3G4200D_ADDRESS, OUT_X_H>>,
    <<L3G4200D_ADDRESS, OUT_Y_L>>, <<L3G4200D_ADDRESS, OUT_Y_H>>,
    <<L3G4200D_ADDRESS, OUT_Z_L>>, <<L3G4200D_ADDRESS, OUT_Z_H>>,
    <<L3G4200D_ADDRESS, CTRL_REG4>>>>

\* The transactions of lg are reads, none to the accelerometer after one to
\* the gyroscope.
AccelReadsThenGyroReads(lg) ==
  /\ \A i \in DOMAIN lg : lg[i].kind = "read"
  /\ \A i, j \in DOMAIN lg :
       (lg[i].dev = L3G4200D_ADDRESS /\ lg[j].dev = ADXL345_ADDRESS) => j < i

\* C13 as stated: every calculate() over the ADXL345 and the L3G4200D on
\* which no bus transaction fails issues between 6 and 12 bus transactions,
\* all reads, the accelerometer's before the gyroscope's, and returns.
C13_SixToTwelve ==
  [][(/\ now' # now
      /\ gyro = "L3G4200D"
      /\ \A i \in DOMAIN log' : log'[i].ok) =>
       /\ 6 <= Len(log') /\ Len(log') <= 12
       /\ AccelReadsThenGyroReads(log')
       /\ err' = "None"]_vars

\* C13 amended: every calculate() over the ADXL345 and the L3G4200D issues
\* between 1 and 13 bus transactions, all reads, in the order of the
\* accelerometer's six data registers, the gyroscope's six data registers and
\* the gyroscope's control register 4, none after one that failed; a call on
\* which none fails issues all 13, and only such a call returns.
C13_AtMostThirteen ==
  [][(now' # now /\ gyro = "L3G4200D") =>
       /\ 1 <= Len(log') /\ Len(log') <= 13
       /\ AccelReadsThenGyroReads(log')
       /\ \A i \in DOMAIN log' :
            /\ <<log'[i].dev, log'[i].reg>> = CalculateReads[i]
            /\ i < Len(log') => log'[i].ok
       /\ (\A i \in DOMAIN log' : log'[i].ok) => Len(log') = 13
       /\ err' = "None" => \A i \in DOMAIN log' : log'[i].ok]_vars

\* A calculate() over the two drivers has returned after 13 reads, the last
\* one of the gyroscope's control register 4.
C13_Witness ==
  /\ call.op = "AHRS.calculate"
  /\ gyro = "L3G4200D"
  /\ err = "None"
  /\ ret # None
  /\ Len(log) = 13
  /\ log[13] = [kind |-> "read", dev |-> 105, reg |-> 35, val |-> 0, ok |-> TRUE]

\* C14: for every byte held in control register 4, get_data_range() that
\* reads it returns a member of {250, 500, 2000} fixed by bits 5:4 of the
\* byte alone (00 -> 250, 01 -> 500, 10 -> 2000), and read(raw=False) whose
\* seven bus reads succeed does not fail on the range lookup.
C14_RangeLookupTotal ==
  LET b == regs[<<L3G4200D_ADDRESS, CTRL_REG4>>]
      bits == (b \div 16) % 4
  IN  /\ (/\ call.op = "L3G4200D.get_data_range"
          /\ \A i \in DOMAIN log : log[i].ok) =>
            /\ err = "None"
            /\ ret[1] \in {250, 500, 2000}
            /\ bits = 0 => ret[1] = 250
            /\ bits = 1 => ret[1] = 500
            /\ bits = 2 => ret[1] = 2000
      /\ (/\ call.op = "L3G4200D.read"
          /\ call.args = <<FALSE>>
          /\ \A i \in DOMAIN log : log[i].ok) => err = "None"

\* C15: when a bus read fails during calculate(), in the accelerometer's or
\* the gyroscope's read, before or after the first cycle, the call ends in the
\* transport's error with the failed transaction the last one issued, and
\* last_read_time, integrated_pitch and integrated_roll are what they were.
C15_FailedCycleUntouched ==
  [][(now' # now /\ \E i \in DOMAIN log' : ~log'[i].ok) =>
       /\ err' = "IOError"
       /\ ret' = None
       /\ \A i \in DOMAIN log' : log'[i].ok <=> i < Len(log')
       /\ last_read_time' = last_read_time
       /\ int_pitch' = int_pitch
       /\ int_roll' = int_roll]_vars

\* In the Tracking state, seeded with the tilt (45, 0), a calculate() has
\* failed on a read of the gyroscope (its ninth transaction) and the
\* estimator holds the seed and the timestamp of the cycle before.
C15_Witness ==
  /\ call.op = "AHRS.calculate"
  /\ gyro = "L3G4200D"
  /\ err = "IOError"
  /\ Len(log) = 9
  /\ ~log[9].ok
  /\ last_read_time # None
  /\ last_read_time[1] < now
  /\ int_pitch = Int2Rat(45)
  /\ g_d = Some(<<None, None, None>>)

-----------------------------------------------------------------------------
(* Building an AHRS from a bus and calibrating one: an AHRS over the       *)
(* ADXL345 and a gyro (the L3G4200D, or an injected object returning the   *)
(* test's rates), at range 2 g.  The samples in the data registers stay as *)
(* they are through the run.                                               *)

\* calibrate is called with 0..MaxSamples samples.
MaxSamples == 2

\* Raw accelerometer samples of a craft at rest: level, and slightly off.
RestSamples == {<<0, 0, 256>>, <<12, -8, 250>>}

InitCalibrate ==
  /\ gyro \in {"L3G4200D", "Mock"}
  /\ \E a \in RestSamples :
       regs = WithGyroSample(WithAccelSample(Cleared, a), <<800, -1600, 2400>>)
  /\ k = <<97, 100>>
  /\ last_read_time = None
  /\ int_pitch = Int2Rat(0)
  /\ int_roll = Int2Rat(0)
  /\ now = 0
  /\ a_att = None
  /\ gyro_rates = None
  /\ g_d = None
  /\ NoCallYet
  /\ CodecIdle

CreateFromBus ==
  /\ \E failAt \in 0..1 :
       Finish("AHRS.create_from_bus", <<>>, create_from_bus(Begin(failAt)))
  /\ UNCHANGED codecVars
  /\ UNCHANGED ahrsVars

Calibrate ==
  /\ \E n \in 0..MaxSamples :
       \E failAt \in 0..(13 * n + 4) :
         \E c \in {calibrate(Begin(failAt), gyro, TestRates, n)} :
           Finish("AHRS.calibrate", <<n>>, c)
  /\ UNCHANGED codecVars
  /\ UNCHANGED ahrsVars

NextCalibrate == CreateFromBus \/ Calibrate

SpecCalibrate == InitCalibrate /\ [][NextCalibrate]_vars

\* C12: create_from_bus builds an AHRS over the ADXL345 and the L3G4200D, and
\* on that AHRS calibrate(n) for n >= 1 takes n gyro and n accelerometer
\* samples (13 bus reads per pair), hands the means to the accelerometer's
\* set_offset (one read, three writes) and to the gyroscope's set_offset, and
\* returns without error, when no bus transaction fails.
C12_CalibrateCompletes ==
  [][(/\ gyro = "L3G4200D"
      /\ \A i \in DOMAIN log' : log'[i].ok
      /\ \/ call'.op = "AHRS.create_from_bus"
         \/ call'.op = "AHRS.calibrate" /\ call'.args[1] >= 1) =>
       /\ err' = "None"
       /\ call'.op = "AHRS.calibrate" => Len(log') = 13 * call'.args[1] + 4]_vars

====
